---- MODULE Spec2Model ----
(***************************************************************************)
(* A model of mini_container (src/main.go): the orchestrator process       *)
(* (main, rootfs, unpack), the layer unpacker (untar) acting on a file     *)
(* system, and the container init process (child).                         *)
(*                                                                         *)
(* Three specifications share the module:                                  *)
(*   Spec      one run: orchestrator, child, host and container namespaces *)
(*   SpecUntar the layer unpacker applied to a file system                 *)
(*   SpecRuns  two runs started on one host, sharing /tmp and the clock    *)
(***************************************************************************)
EXTENDS Integers, Sequences, FiniteSets, TLC

VARIABLES
    \* ---- one run (Spec) ----
    userns,        \* the -userns flag (main.go:145)
    uid, gid,      \* os.Getuid(), os.Getgid() of the invoking user
    hostShared,    \* whether the host's root mount has shared propagation
    bootHostname,  \* the host's hostname when the run starts
    ppc,           \* position of the orchestrator process in main()
    pexit,         \* exit status of the orchestrator process, NotExited while it runs
    tmpDirExists,  \* whether rootfs()'s tmpDir exists on disk
    nLayers,       \* len(layers) of the image, once img.Layers() returned
    layerIdx,      \* number of layers untar'ed so far by unpack()
    root,          \* main()'s local `root`
    flags,         \* main()'s local `flags`
    sysProcAttr,   \* main()'s local `sysProcAttr`
    cmdAttr,       \* cmd.SysProcAttr
    cpc,           \* position of the child process in child()
    cexit,         \* exit status of the child process, NotExited while it runs
    childAttr,     \* the attributes the child process was created with
    done,          \* the child() steps completed so far, in order
    failedStep,    \* the child() step that failed, or "none"
    hostname,      \* hostname of each UTS namespace
    mounts,        \* mount table of each mount namespace
    lateHostMounts,\* mount points the host mounted after the child was created
    croot,         \* the child's file system root
    ccwd,          \* the child's working directory
    procDir,       \* where the child created its proc directory, <<>> if nowhere
    cpid,          \* the child's process ID in its PID namespace, 0 before it exists
    cargs,         \* the child's os.Args
    ptrace,        \* the steps the orchestrator has taken, each with its outcome
    \* ---- the layer unpacker (SpecUntar) ----
    umask,         \* the process's file mode creation mask
    fs,            \* the file system: absolute path -> node
    inodes,        \* the regular files' inodes: mode and content
    upc,           \* position in unpack()/untar()
    nImg,          \* len(layers) in unpack()
    li,            \* number of layers whose stream unpack() has opened
    applied,       \* the archive entries untar() has processed, in order
    rcOpen,        \* the layers whose stream rc is open
    \* ---- two runs on one host (SpecRuns) ----
    clock,         \* the host's clock, as time.Now().UnixNano() reads it
    rpc,           \* position of each run's orchestrator
    tmpDir,        \* rootfs()'s tmpDir of each run, <<>> before it is computed
    dirs,          \* the directories that exist under /tmp
    unpackedBy     \* <<directory, run>>: the run has unpacked into the directory

inVars == <<userns, uid, gid, hostShared, bootHostname>>
provVars == <<tmpDirExists, nLayers, layerIdx, root>>
cfgVars == <<flags, sysProcAttr, cmdAttr>>
childVars == <<cpc, cexit, childAttr, done, failedStep, croot, ccwd, procDir, cpid, cargs>>
nsVars == <<hostname, mounts, lateHostMounts>>
runVars == <<inVars, ppc, pexit, ptrace, provVars, cfgVars, childVars, nsVars>>

untarVars == <<umask, fs, inodes, upc, nImg, li, applied, rcOpen>>

runsVars == <<clock, rpc, tmpDir, dirs, unpackedBy>>

vars == <<runVars, untarVars, runsVars>>

----------------------------------------------------------------------------
(* Bounds and program constants                                            *)

MaxLayers == 2
MaxEntries == 2
MaxClock == 2
MaxSymlinkHops == 8
DirPerm == 493
FatalStatus == 1
NotExited == 0 - 1

Uids == {0, 1000}
Gids == {0, 100}
ExitStatuses == {0, FatalStatus, 2}

NEWNS == "CLONE_NEWNS"
NEWUTS == "CLONE_NEWUTS"
NEWPID == "CLONE_NEWPID"
NEWUSER == "CLONE_NEWUSER"

HostHostname == "host"
ContainerHostname == "shadman-lab"
HostHostnames == {HostHostname, ContainerHostname}
TmpDir == "/tmp/rootfs-N"
ProcPath == "/tmp/rootfs-N/proc"
HostMnt == <<"/", "/mnt">>
Namespaces == {"host", "ctr"}

----------------------------------------------------------------------------
(* must(): log.Fatal on error, otherwise continue                          *)

MustIgnoring(ok, next) == next

\* the position a process is at after must(e): `next` when e is nil, "fatal"
\* (log.Fatal, i.e. os.Exit(1)) otherwise
must(ok, next) == IF ok THEN next ELSE "fatal"

----------------------------------------------------------------------------
(* The orchestrator: main() in parent mode, rootfs(), unpack()             *)

ZeroAttr == [Cloneflags |-> {}, Unshareflags |-> {},
             UidMappings |-> <<>>, GidMappings |-> <<>>]

PFatalRetry == /\ ppc' = ppc
               /\ pexit' = pexit

PFatal == /\ ppc' = "exited"
          /\ pexit' = FatalStatus

PGotoExitZero(pos) ==
    IF pos \in {"fatal", "return"} THEN ppc' = "exited" /\ pexit' = 0
    ELSE ppc' = pos /\ pexit' = pexit

\* the orchestrator moves to position pos: log.Fatal exits with FatalStatus,
\* returning from main exits with 0
PGoto(pos) == CASE pos = "fatal" -> PFatal
                []  pos = "return" -> ppc' = "exited" /\ pexit' = 0
                []  OTHER -> ppc' = pos /\ pexit' = pexit

\* the orchestrator's step, and whether it succeeded, goes on record
Log(step, ok) == ptrace' = Append(ptrace, [step |-> step, ok |-> ok])

\* name.ParseReference(ref); must(err)
ParseReference(ok) ==
    /\ ppc = "start"
    /\ PGoto(must(ok, "parsed"))
    /\ Log("ParseReference", ok)
    /\ UNCHANGED <<untarVars, runsVars, inVars, provVars, cfgVars, childVars, nsVars>>

\* tmpDir := ...; must(os.MkdirAll(tmpDir, 0755))
MkTmpDir(ok) ==
    /\ ppc = "parsed"
    /\ tmpDirExists' = (tmpDirExists \/ ok)
    /\ PGoto(must(ok, "tmpdir"))
    /\ Log("MkdirAll", ok)
    /\ UNCHANGED <<untarVars, runsVars, inVars, cfgVars, childVars, nsVars, nLayers, layerIdx, root>>

\* img, err := remote.Image(r); must(err)
RemoteImage(ok) ==
    /\ ppc = "tmpdir"
    /\ PGoto(must(ok, "image"))
    /\ Log("remote.Image", ok)
    /\ UNCHANGED <<untarVars, runsVars, inVars, provVars, cfgVars, childVars, nsVars>>

\* layers, err := img.Layers(); an error is returned to rootfs(), whose must() is fatal
ImgLayers(ok, n) ==
    /\ ppc = "image"
    /\ nLayers' = IF ok THEN n ELSE nLayers
    /\ PGoto(must(ok, "unpacking"))
    /\ Log("Layers", ok)
    /\ UNCHANGED <<untarVars, runsVars, inVars, cfgVars, childVars, nsVars, tmpDirExists, layerIdx, root>>

\* one iteration of unpack()'s loop: l.Uncompressed(), untar(rc, dst), rc.Close().
\* Every failure ends the process: returned errors reach must() in rootfs(),
\* the others are must() calls inside untar().
UnpackLayer(ok) ==
    /\ ppc = "unpacking"
    /\ layerIdx < nLayers
    /\ layerIdx' = IF ok THEN layerIdx + 1 ELSE layerIdx
    /\ PGoto(must(ok, "unpacking"))
    /\ Log("untar", ok)
    /\ UNCHANGED <<untarVars, runsVars, inVars, cfgVars, childVars, nsVars, tmpDirExists, nLayers, root>>

\* unpack returns nil, rootfs returns tmpDir, root := rootfs(*img)
RootfsReturn ==
    /\ ppc = "unpacking"
    /\ layerIdx = nLayers
    /\ root' = TmpDir
    /\ PGoto("rootfs_done")
    /\ Log("return tmpDir", TRUE)
    /\ UNCHANGED <<untarVars, runsVars, inVars, cfgVars, childVars, nsVars, tmpDirExists, nLayers, layerIdx>>

\* cmd := exec.Command("/proc/self/exe", "--child", root)
NewCommand ==
    /\ ppc = "rootfs_done"
    /\ cmdAttr' = ZeroAttr
    /\ PGoto("cmd")
    /\ Log("exec.Command", TRUE)
    /\ UNCHANGED <<untarVars, runsVars, inVars, provVars, childVars, nsVars, flags, sysProcAttr>>

BaseFlagsNoPid == {NEWNS, NEWUTS}

\* syscall.CLONE_NEWNS | syscall.CLONE_NEWUTS | syscall.CLONE_NEWPID
BaseFlags == {NEWNS, NEWUTS, NEWPID}

\* flags := CLONE_NEWNS | CLONE_NEWUTS | CLONE_NEWPID
SetFlags ==
    /\ ppc = "cmd"
    /\ flags' = BaseFlags
    /\ PGoto("flags")
    /\ Log("flags", TRUE)
    /\ UNCHANGED <<untarVars, runsVars, inVars, provVars, childVars, nsVars, sysProcAttr, cmdAttr>>

\* if *userns { flags |= syscall.CLONE_NEWUSER }
SetUsernsFlag ==
    /\ ppc = "flags"
    /\ flags' = IF userns THEN flags \cup {NEWUSER} ELSE flags
    /\ PGoto("flags_done")
    /\ Log("flags|=", TRUE)
    /\ UNCHANGED <<untarVars, runsVars, inVars, provVars, childVars, nsVars, sysProcAttr, cmdAttr>>

NoUnshareflags == {}

\* Unshareflags: syscall.CLONE_NEWNS
UnshareflagsValue == {NEWNS}

\* sysProcAttr := &syscall.SysProcAttr{Cloneflags: ..., Unshareflags: ...}
MakeSysProcAttr ==
    /\ ppc = "flags_done"
    /\ sysProcAttr' = [Cloneflags |-> flags, Unshareflags |-> UnshareflagsValue,
                       UidMappings |-> <<>>, GidMappings |-> <<>>]
    /\ PGoto("attr")
    /\ Log("SysProcAttr", TRUE)
    /\ UNCHANGED <<untarVars, runsVars, inVars, provVars, childVars, nsVars, flags, cmdAttr>>

NeedsMappingsAlways == userns

\* *userns && os.Getuid() != 0
NeedsMappings == userns /\ uid # 0

\* []syscall.SysProcIDMap{{HostID: id, ContainerID: 0, Size: 1}}
IDMap(id) == <<[HostID |-> id, ContainerID |-> 0, Size |-> 1]>>

\* if *userns && os.Getuid() != 0 { UidMappings = ...; GidMappings = ... }
SetMappings ==
    /\ ppc = "attr"
    /\ sysProcAttr' = IF NeedsMappings
                      THEN [sysProcAttr EXCEPT !.UidMappings = IDMap(uid),
                                               !.GidMappings = IDMap(gid)]
                      ELSE sysProcAttr
    /\ PGoto("mapped")
    /\ Log("mappings", TRUE)
    /\ UNCHANGED <<untarVars, runsVars, inVars, provVars, childVars, nsVars, flags, cmdAttr>>

\* cmd.SysProcAttr = sysProcAttr
AssignAttr ==
    /\ ppc = "mapped"
    /\ cmdAttr' = sysProcAttr
    /\ PGoto("ready")
    /\ Log("cmd.SysProcAttr", TRUE)
    /\ UNCHANGED <<untarVars, runsVars, inVars, provVars, childVars, nsVars, flags, sysProcAttr>>

----------------------------------------------------------------------------
(* Namespaces, as the kernel and Go's os/exec give them to the child for   *)
(* the SysProcAttr that main() builds                                      *)

\* the mount namespace a process created with `attr` lives in: clone(CLONE_NEWNS)
\* or the runtime's unshare(Unshareflags) gives it its own
MntNs(attr) == IF NEWNS \in attr.Cloneflags \cup attr.Unshareflags THEN "ctr" ELSE "host"

UtsNsOfParent(attr) == "host"

\* the UTS namespace a process created with `attr` lives in
UtsNs(attr) == IF NEWUTS \in attr.Cloneflags \cup attr.Unshareflags THEN "ctr" ELSE "host"

\* Unshareflags&CLONE_NEWNS makes the runtime remount / as MS_REC|MS_PRIVATE in
\* the child; otherwise the child's copy of a shared mount stays its peer
Peers(attr) == /\ MntNs(attr) = "ctr"
               /\ hostShared
               /\ NEWNS \notin attr.Unshareflags

ChildAlive == cpc \notin {"none", "exited"}

\* the mount tables after a mount at point m made in namespace ns
MountIn(ns, m) ==
    [n \in Namespaces |->
        IF n = ns \/ (ChildAlive /\ Peers(childAttr))
           \/ (n = "ctr" /\ ChildAlive /\ MntNs(childAttr) = "host")
        THEN mounts[n] \cup {m} ELSE mounts[n]]

\* the mount tables once the child, the only process of its namespaces, is gone
Teardown == [mounts EXCEPT !["ctr"] = {}]

\* the process ID clone() gives the child in its PID namespace: 1 in a new
\* namespace (CLONE_NEWPID), some other number in the host's
ClonePid(attr) == IF NEWPID \in attr.Cloneflags THEN 1 ELSE 4242

\* exec.Command("/proc/self/exe", "--child", root): the child's os.Args
CmdArgs == <<"/proc/self/exe", "--child", root>>

\* must(cmd.Run()), first half: cmd.Start() clones the child with cmd.SysProcAttr
CmdStart(ok) ==
    /\ ppc = "ready"
    /\ PGoto(must(ok, "waiting"))
    /\ Log("cmd.Start", ok)
    /\ IF ok
       THEN /\ cpc' = "main"
            /\ childAttr' = cmdAttr
            /\ cpid' = ClonePid(cmdAttr)
            /\ cargs' = CmdArgs
            /\ mounts' = [mounts EXCEPT !["ctr"] = mounts["host"]]
            /\ hostname' = [hostname EXCEPT !["ctr"] = hostname["host"]]
            /\ UNCHANGED <<cexit, done, failedStep, croot, ccwd, procDir, lateHostMounts>>
       ELSE UNCHANGED <<childVars, nsVars>>
    /\ UNCHANGED <<untarVars, runsVars, inVars, provVars, cfgVars>>

\* must(cmd.Run()), second half: cmd.Wait() returns an *ExitError unless the
\* child exited with status 0; then main returns
CmdWait ==
    /\ ppc = "waiting"
    /\ cpc = "exited"
    /\ PGoto(must(cexit = 0, "return"))
    /\ Log("cmd.Wait", cexit = 0)
    /\ UNCHANGED <<untarVars, runsVars, inVars, provVars, cfgVars, childVars, nsVars>>

----------------------------------------------------------------------------
(* Container Init: main() in child mode and child()                        *)

StepAfterChrootFirst(s) ==
    CASE s = "sethostname" -> "chroot"
      [] s = "chroot" -> "mkdir"
      [] s = "mkdir" -> "mount"
      [] s = "mount" -> "chdir"
      [] s = "chdir" -> "exec"
      [] s = "exec" -> "shell"

\* the statement of child() that follows statement s
StepAfter(s) ==
    CASE s = "sethostname" -> "mkdir"
      [] s = "mkdir" -> "mount"
      [] s = "mount" -> "chroot"
      [] s = "chroot" -> "chdir"
      [] s = "chdir" -> "exec"
      [] s = "exec" -> "shell"

\* where a path names a file for the child: under the child's current root
Under(r, path) == <<r, path>>

\* the child's step s ends: on to the next statement, or log.Fatal
CGoto(s, ok) ==
    LET pos == must(ok, StepAfter(s)) IN
    IF pos = "fatal"
    THEN /\ cpc' = "exited"
         /\ cexit' = FatalStatus
         /\ failedStep' = s
         /\ done' = done
    ELSE /\ cpc' = pos
         /\ cexit' = cexit
         /\ failedStep' = IF ok THEN failedStep ELSE s
         /\ done' = IF ok THEN Append(done, s) ELSE done

IsChildModeArg0(args) == Len(args) > 0 /\ args[1] = "--child"

\* len(os.Args) > 1 && os.Args[1] == "--child"
IsChildMode(args) == Len(args) > 1 /\ args[2] = "--child"

\* child(os.Args[2]): the rootfs path child() is given
ChildRootfs == cargs[3]

\* if len(os.Args) > 1 && os.Args[1] == "--child" { child(os.Args[2]); return };
\* otherwise the process goes on into main()'s orchestrator code
ChildMain ==
    /\ cpc = "main"
    /\ cpc' = IF IsChildMode(cargs) THEN "sethostname" ELSE "parent_mode"
    /\ UNCHANGED <<cexit, childAttr, cpid, cargs, done, failedStep, croot, ccwd, procDir>>
    /\ UNCHANGED <<untarVars, runsVars, inVars, ppc, pexit, ptrace, provVars, cfgVars, nsVars>>

\* must(unix.Sethostname([]byte("shadman-lab")))
Sethostname(ok) ==
    /\ cpc = "sethostname"
    /\ CGoto("sethostname", ok)
    /\ hostname' = IF ok THEN [hostname EXCEPT ![UtsNs(childAttr)] = ContainerHostname]
                   ELSE hostname
    /\ mounts' = IF cpc' = "exited" THEN Teardown ELSE mounts
    /\ UNCHANGED <<childAttr, cpid, cargs, croot, ccwd, procDir, lateHostMounts>>
    /\ UNCHANGED <<untarVars, runsVars, inVars, ppc, pexit, ptrace, provVars, cfgVars>>

\* procPath := filepath.Join(rootfs, "proc"); must(os.MkdirAll(procPath, 0755))
MkdirProc(ok) ==
    /\ cpc = "mkdir"
    /\ CGoto("mkdir", ok)
    /\ procDir' = IF ok THEN Under(croot, ProcPath) ELSE procDir
    /\ mounts' = IF cpc' = "exited" THEN Teardown ELSE mounts
    /\ UNCHANGED <<childAttr, cpid, cargs, croot, ccwd, hostname, lateHostMounts>>
    /\ UNCHANGED <<untarVars, runsVars, inVars, ppc, pexit, ptrace, provVars, cfgVars>>

\* must(unix.Mount("proc", procPath, "proc", MS_NOSUID|MS_NOEXEC|MS_NODEV, ""))
MountProc(ok) ==
    /\ cpc = "mount"
    /\ ok => procDir = Under(croot, ProcPath)
    /\ CGoto("mount", ok)
    /\ mounts' = IF cpc' = "exited" THEN Teardown
                 ELSE IF ok THEN MountIn(MntNs(childAttr), Under(croot, ProcPath))
                 ELSE mounts
    /\ UNCHANGED <<childAttr, cpid, cargs, croot, ccwd, procDir, hostname, lateHostMounts>>
    /\ UNCHANGED <<untarVars, runsVars, inVars, ppc, pexit, ptrace, provVars, cfgVars>>

\* must(unix.Chroot(rootfs))
Chroot(ok) ==
    /\ cpc = "chroot"
    /\ CGoto("chroot", ok)
    /\ croot' = IF ok THEN ChildRootfs ELSE croot
    /\ mounts' = IF cpc' = "exited" THEN Teardown ELSE mounts
    /\ UNCHANGED <<childAttr, cpid, cargs, ccwd, procDir, hostname, lateHostMounts>>
    /\ UNCHANGED <<untarVars, runsVars, inVars, ppc, pexit, ptrace, provVars, cfgVars>>

\* must(unix.Chdir("/"))
Chdir(ok) ==
    /\ cpc = "chdir"
    /\ CGoto("chdir", ok)
    /\ ccwd' = IF ok THEN Under(croot, "/") ELSE ccwd
    /\ mounts' = IF cpc' = "exited" THEN Teardown ELSE mounts
    /\ UNCHANGED <<childAttr, cpid, cargs, croot, procDir, hostname, lateHostMounts>>
    /\ UNCHANGED <<untarVars, runsVars, inVars, ppc, pexit, ptrace, provVars, cfgVars>>

ForkExecPid(pid) == pid + 1

\* syscall.Exec replaces the image of the calling process: the shell keeps its pid
ExecPid(pid) == pid

\* must(syscall.Exec("/bin/sh", []string{"sh", "-i"}, os.Environ()))
Exec(ok) ==
    /\ cpc = "exec"
    /\ CGoto("exec", ok)
    /\ cpid' = IF ok THEN ExecPid(cpid) ELSE cpid
    /\ mounts' = IF cpc' = "exited" THEN Teardown ELSE mounts
    /\ UNCHANGED <<childAttr, cargs, croot, ccwd, procDir, hostname, lateHostMounts>>
    /\ UNCHANGED <<untarVars, runsVars, inVars, ppc, pexit, ptrace, provVars, cfgVars>>

----------------------------------------------------------------------------
(* The environment of a run: the shell once exec'ed, and the host          *)

\* the interactive shell mounts something inside the container
ShellMount ==
    /\ cpc = "shell"
    /\ Under(croot, "/mnt") \notin mounts[MntNs(childAttr)]
    /\ mounts' = MountIn(MntNs(childAttr), Under(croot, "/mnt"))
    /\ UNCHANGED <<childVars, hostname, lateHostMounts>>
    /\ UNCHANGED <<untarVars, runsVars, inVars, ppc, pexit, ptrace, provVars, cfgVars>>

\* the interactive shell exits with status s
ShellExit(s) ==
    /\ cpc = "shell"
    /\ cpc' = "exited"
    /\ cexit' = s
    /\ mounts' = Teardown
    /\ UNCHANGED <<childAttr, cpid, cargs, done, failedStep, croot, ccwd, procDir, hostname, lateHostMounts>>
    /\ UNCHANGED <<untarVars, runsVars, inVars, ppc, pexit, ptrace, provVars, cfgVars>>

\* some host process mounts something in the host's mount namespace
HostMount ==
    /\ HostMnt \notin mounts["host"]
    /\ mounts' = MountIn("host", HostMnt)
    /\ lateHostMounts' = IF cpc # "none" THEN lateHostMounts \cup {HostMnt}
                         ELSE lateHostMounts
    /\ UNCHANGED <<childVars, hostname>>
    /\ UNCHANGED <<untarVars, runsVars, inVars, ppc, pexit, ptrace, provVars, cfgVars>>

----------------------------------------------------------------------------
(* The file system untar() acts on: paths are sequences of segments, with  *)
(* "" for an empty segment (a leading or doubled "/"), "." and ".."        *)

\* m &^ u on permission bits
RECURSIVE AndNot(_, _)
AndNot(m, u) ==
    IF m = 0 THEN 0
    ELSE (IF m % 2 = 1 /\ u % 2 = 0 THEN 1 ELSE 0) + 2 * AndNot(m \div 2, u \div 2)

\* the destination directory of the unpack: rootfs()'s tmpDir
Dst == <<"tmp", "rootfs">>

\* filepath.Dir of a clean rooted path
Dir(path) == IF path = <<>> THEN <<>> ELSE SubSeq(path, 1, Len(path) - 1)

\* filepath.Clean of a rooted path: drops "" and ".", resolves ".." lexically
\* against the element before it, and drops ".." at the root
RECURSIVE CleanOnto(_, _)
CleanOnto(acc, segs) ==
    IF segs = <<>> THEN acc
    ELSE LET s == Head(segs) IN
         CleanOnto(IF s \in {"", "."} THEN acc
                   ELSE IF s = ".." THEN Dir(acc)
                   ELSE Append(acc, s),
                   Tail(segs))

Clean(segs) == CleanOnto(<<>>, segs)

\* filepath.Join(d, name) for a rooted d: Clean(d + "/" + name)
Join(d, name) == Clean(d \o name)

DirNode(mode) == [kind |-> "dir", mode |-> mode, ino |-> 0, target |-> <<>>]
FileNode(ino) == [kind |-> "file", mode |-> 0, ino |-> ino, target |-> <<>>]
SymlinkNode(target) == [kind |-> "symlink", mode |-> 0, ino |-> 0, target |-> target]

\* the kernel's path walk from directory cur over the segments rest, following
\* a symbolic link in the last position only when `follow`. err = "" and the
\* path of the node found; or "ENOENT" with final = TRUE and the path where
\* the missing last component would be created; or another error.
RECURSIVE Walk(_, _, _, _, _)
Walk(f, cur, rest, follow, hops) ==
    IF rest = <<>> THEN [err |-> "", path |-> cur, final |-> FALSE]
    ELSE LET seg == Head(rest)
             more == Tail(rest)
             p == Append(cur, seg)
         IN
         IF seg \in {"", "."} THEN Walk(f, cur, more, follow, hops)
         ELSE IF seg = ".." THEN Walk(f, Dir(cur), more, follow, hops)
         ELSE IF p \notin DOMAIN f
              THEN [err |-> "ENOENT", path |-> p, final |-> more = <<>>]
         ELSE IF f[p].kind = "symlink" /\ (more # <<>> \/ follow)
              THEN IF hops = 0 THEN [err |-> "ELOOP", path |-> p, final |-> FALSE]
                   ELSE LET t == f[p].target IN
                        IF t # <<>> /\ Head(t) = ""
                        THEN Walk(f, <<>>, Tail(t) \o more, follow, hops - 1)
                        ELSE Walk(f, cur, t \o more, follow, hops - 1)
         ELSE IF more = <<>> THEN [err |-> "", path |-> p, final |-> FALSE]
         ELSE IF f[p].kind = "dir" THEN Walk(f, p, more, follow, hops)
         ELSE [err |-> "ENOTDIR", path |-> p, final |-> FALSE]

\* os.Stat and os.Lstat
Stat(f, path) == Walk(f, <<>>, path, TRUE, MaxSymlinkHops)
Lstat(f, path) == Walk(f, <<>>, path, FALSE, MaxSymlinkHops)

\* os.Mkdir(path, perm): the last component must not exist
Mkdir(f, path, perm) ==
    LET w == Lstat(f, path) IN
    IF w.err = "ENOENT" /\ w.final
    THEN [ok |-> TRUE, fs |-> (w.path :> DirNode(AndNot(perm, umask))) @@ f]
    ELSE [ok |-> FALSE, fs |-> f]

\* os.MkdirAll(path, perm): nothing to do when path is a directory, an error
\* when it is something else; otherwise the parents first, created with the
\* same perm, then Mkdir(path, perm). An existing directory keeps its mode.
RECURSIVE MkdirAll(_, _, _)
MkdirAll(f, path, perm) ==
    LET st == Stat(f, path) IN
    IF st.err = "" THEN [ok |-> f[st.path].kind = "dir", fs |-> f]
    ELSE LET par == IF Len(path) > 1 THEN MkdirAll(f, Dir(path), perm)
                    ELSE [ok |-> TRUE, fs |-> f]
         IN IF ~par.ok THEN par ELSE Mkdir(par.fs, path, perm)

\* os.O_CREATE|os.O_WRONLY
OpenFlags == {"O_CREATE", "O_WRONLY"}

\* os.OpenFile(path, OpenFlags, perm): follows a symbolic link in the last
\* position, creates the file with perm &^ umask when it is missing, and
\* opens an existing file as it is, mode and content kept (no O_TRUNC)
OpenFile(f, ino, path, perm) ==
    LET w == Stat(f, path) IN
    IF w.err = "" /\ f[w.path].kind = "file"
    THEN [ok |-> TRUE, fs |-> f, file |-> f[w.path].ino,
          inodes |-> IF "O_TRUNC" \in OpenFlags
                     THEN [ino EXCEPT ![f[w.path].ino].data = <<>>] ELSE ino]
    ELSE IF w.err = "ENOENT" /\ w.final /\ "O_CREATE" \in OpenFlags
    THEN [ok |-> TRUE, fs |-> (w.path :> FileNode(Len(ino) + 1)) @@ f,
          file |-> Len(ino) + 1,
          inodes |-> Append(ino, [mode |-> AndNot(perm, umask), data |-> <<>>])]
    ELSE [ok |-> FALSE, fs |-> f, file |-> 0, inodes |-> ino]

\* the content of a file after writing the bytes w from offset 0 over old
WriteAt0(old, w) == w \o SubSeq(old, Len(w) + 1, Len(old))

\* os.Link(old, new): old must exist and be no directory (a symbolic link in
\* the last position is not followed), new must not exist
Link(f, old, new) ==
    LET wo == Lstat(f, old)
        wn == Lstat(f, new)
    IN IF wo.err = "" /\ f[wo.path].kind # "dir" /\ wn.err = "ENOENT" /\ wn.final
       THEN [ok |-> TRUE, fs |-> (wn.path :> f[wo.path]) @@ f]
       ELSE [ok |-> FALSE, fs |-> f]

SymlinkCleaned(f, target, path) ==
    LET wn == Lstat(f, path) IN
    IF wn.err = "ENOENT" /\ wn.final
    THEN [ok |-> TRUE, fs |-> (wn.path :> SymlinkNode(Clean(target))) @@ f]
    ELSE [ok |-> FALSE, fs |-> f]

\* os.Symlink(target, path): path must not exist; target is stored as given
Symlink(f, target, path) ==
    LET wn == Lstat(f, path) IN
    IF wn.err = "ENOENT" /\ wn.final
    THEN [ok |-> TRUE, fs |-> (wn.path :> SymlinkNode(target)) @@ f]
    ELSE [ok |-> FALSE, fs |-> f]

----------------------------------------------------------------------------
(* The Layer Unpacker: unpack() and untar()                                *)

EntryNames == {<<"a">>, <<"a", "b">>, <<"..", "x">>}
LinkNames == {<<"a">>, <<"", "tmp">>}
HardLinkNames == {<<"a">>, <<"..", "h">>}
LinkEntryNames == {<<"a">>, <<"b">>}
SymlinkEntryNames == {<<"a">>, <<"..", "x">>}
Modes == {448, 438}
Contents == {<<1, 1>>, <<2>>}
Umasks == {0, 18}

\* the tar headers (with the content of a regular file) a stream may carry
Entries ==
    [Typeflag : {"dir"}, Name : EntryNames, Mode : Modes, Linkname : {<<>>}, Data : {<<>>}]
    \cup [Typeflag : {"reg"}, Name : EntryNames, Mode : {438}, Linkname : {<<>>}, Data : Contents]
    \cup [Typeflag : {"link"}, Name : LinkEntryNames, Mode : {438}, Linkname : HardLinkNames,
          Data : {<<>>}]
    \cup [Typeflag : {"symlink"}, Name : SymlinkEntryNames, Mode : {438}, Linkname : LinkNames,
          Data : {<<>>}]
    \cup [Typeflag : {"fifo"}, Name : {<<"a">>}, Mode : {438}, Linkname : {<<>>}, Data : {<<>>}]

\* path := filepath.Join(dst, h.Name)
EntryPath(h) == Join(Dst, h.Name)

\* the file system after case tar.TypeDir: must(os.MkdirAll(path, os.FileMode(h.Mode)))
ApplyDir(h) ==
    LET r == MkdirAll(fs, EntryPath(h), h.Mode) IN
    [pos |-> must(r.ok, "untar"), fs |-> r.fs, inodes |-> inodes,
     made |-> r.ok, copied |-> TRUE]

CopyIgnoringError(k, n) == "untar"

\* if _, err := io.Copy(f, tr); err != nil { f.Close(); return err }: where
\* untar() is after copying k of the n bytes
CopyResult(k, n) == IF k = n THEN "untar" ELSE "error"

\* case tar.TypeReg: MkdirAll of the parent, OpenFile, io.Copy of k bytes of
\* the content (all of them unless the stream fails), f.Close()
ApplyReg(h, k) ==
    LET path == EntryPath(h)
        r == MkdirAll(fs, Dir(path), DirPerm)
        o == OpenFile(r.fs, inodes, path, h.Mode)
    IN IF must(r.ok, "open") = "fatal"
       THEN [pos |-> "fatal", fs |-> r.fs, inodes |-> inodes,
             made |-> FALSE, copied |-> FALSE]
       ELSE IF must(o.ok, "copy") = "fatal"
       THEN [pos |-> "fatal", fs |-> o.fs, inodes |-> o.inodes,
             made |-> FALSE, copied |-> FALSE]
       ELSE [pos |-> CopyResult(k, Len(h.Data)),
             fs |-> o.fs,
             made |-> r.ok /\ o.ok,
             copied |-> r.ok /\ o.ok /\ k = Len(h.Data),
             inodes |-> IF o.ok
                        THEN [o.inodes EXCEPT ![o.file].data =
                                 WriteAt0(o.inodes[o.file].data, SubSeq(h.Data, 1, k))]
                        ELSE o.inodes]

\* case tar.TypeLink: must(os.Link(filepath.Join(dst, h.Linkname), path))
ApplyLink(h) ==
    LET r == Link(fs, Join(Dst, h.Linkname), EntryPath(h)) IN
    [pos |-> must(r.ok, "untar"), fs |-> r.fs, inodes |-> inodes,
     made |-> r.ok, copied |-> TRUE]

\* case tar.TypeSymlink: must(os.Symlink(h.Linkname, path))
ApplySymlink(h) ==
    LET r == Symlink(fs, h.Linkname, EntryPath(h)) IN
    [pos |-> must(r.ok, "untar"), fs |-> r.fs, inodes |-> inodes,
     made |-> r.ok, copied |-> TRUE]

ApplyRejecting(h, k) ==
    CASE h.Typeflag = "dir" -> ApplyDir(h)
      [] h.Typeflag = "reg" -> ApplyReg(h, k)
      [] h.Typeflag = "link" -> ApplyLink(h)
      [] h.Typeflag = "symlink" -> ApplySymlink(h)
      [] OTHER -> [pos |-> "error", fs |-> fs, inodes |-> inodes,
                   made |-> FALSE, copied |-> FALSE]

\* the switch of untar() on h.Typeflag; any other type falls through
Apply(h, k) ==
    CASE h.Typeflag = "dir" -> ApplyDir(h)
      [] h.Typeflag = "reg" -> ApplyReg(h, k)
      [] h.Typeflag = "link" -> ApplyLink(h)
      [] h.Typeflag = "symlink" -> ApplySymlink(h)
      [] OTHER -> [pos |-> "untar", fs |-> fs, inodes |-> inodes,
                   made |-> TRUE, copied |-> TRUE]

CloseDeferred(open, l) == open

\* rc.Close() of layer l's stream
CloseStream(open, l) == open \ {l}

\* the streams open once untar() has left position pos: unpack() closes rc
\* when untar returns, with an error or without; log.Fatal inside untar ends
\* the process and with it every stream
AfterUntar(pos) ==
    CASE pos = "untar" -> rcOpen
      [] pos = "fatal" -> {}
      [] OTHER -> CloseStream(rcOpen, li)

\* unpack(): rc, err := l.Uncompressed() for the next layer; err is returned
OpenLayer(ok) ==
    /\ upc = "loop"
    /\ li < nImg
    /\ upc' = IF ok THEN "untar" ELSE "error"
    /\ li' = IF ok THEN li + 1 ELSE li
    /\ rcOpen' = IF ok THEN rcOpen \cup {li + 1} ELSE rcOpen
    /\ UNCHANGED <<umask, fs, inodes, nImg, applied>>
    /\ UNCHANGED <<runVars, runsVars>>

\* unpack(): the loop over the layers ends; return nil
UnpackReturn ==
    /\ upc = "loop"
    /\ li = nImg
    /\ upc' = "done"
    /\ UNCHANGED <<umask, fs, inodes, nImg, li, applied, rcOpen>>
    /\ UNCHANGED <<runVars, runsVars>>

\* untar(): tr.Next() returns io.EOF; untar returns nil and unpack closes rc
UntarEOF ==
    /\ upc = "untar"
    /\ upc' = "loop"
    /\ rcOpen' = AfterUntar("loop")
    /\ UNCHANGED <<umask, fs, inodes, nImg, li, applied>>
    /\ UNCHANGED <<runVars, runsVars>>

\* untar(): tr.Next() returns another error, which untar returns
UntarNextError ==
    /\ upc = "untar"
    /\ upc' = "error"
    /\ rcOpen' = AfterUntar("error")
    /\ UNCHANGED <<umask, fs, inodes, nImg, li, applied>>
    /\ UNCHANGED <<runVars, runsVars>>

\* untar(): tr.Next() returns the header h, and the switch is run on it; of
\* a regular file's content k bytes are copied before the stream fails, if it does
UntarEntry(h, k) ==
    /\ upc = "untar"
    /\ Len(applied) < MaxEntries
    /\ k = Len(h.Data) \/ h.Typeflag = "reg"
    /\ LET r == Apply(h, k) IN
        /\ upc' = r.pos
        /\ fs' = r.fs
        /\ inodes' = r.inodes
        /\ rcOpen' = AfterUntar(r.pos)
    /\ LET r == Apply(h, k) IN
        applied' = Append(applied, [layer |-> li, h |-> h, pos |-> r.pos,
                                    made |-> r.made, copied |-> r.copied])
    /\ UNCHANGED <<umask, nImg, li>>
    /\ UNCHANGED <<runVars, runsVars>>

\* a file of the host, next to the destination directory
HostFile == <<"tmp", "h">>
InitInodes == <<[mode |-> 420, data |-> <<7>>]>>

\* the file system unpack() starts on: /, /tmp with a file of the host in it,
\* and the destination, which rootfs() made with os.MkdirAll(tmpDir, 0755)
InitFs == (<<>> :> DirNode(DirPerm)) @@ (<<"tmp">> :> DirNode(511))
          @@ (HostFile :> FileNode(1))
          @@ (Dst :> DirNode(AndNot(DirPerm, umask)))

UntarIdle ==
    /\ umask = 0
    /\ fs = InitFs
    /\ inodes = InitInodes
    /\ upc = "idle"
    /\ nImg = 0
    /\ li = 0
    /\ applied = <<>>
    /\ rcOpen = {}


----------------------------------------------------------------------------
(* Two runs of the program on one host: rootfs() of each, up to the child  *)

Runs == {1, 2}

\* fmt.Sprintf("/tmp/rootfs-%d", now)
RootfsPath(now) == <<"tmp", "rootfs-", now>>

\* tmpDir := fmt.Sprintf("/tmp/rootfs-%d", time.Now().UnixNano())
RunTmpDir(r) ==
    /\ rpc[r] = "start"
    /\ tmpDir' = [tmpDir EXCEPT ![r] = RootfsPath(clock)]
    /\ rpc' = [rpc EXCEPT ![r] = "mkdir"]
    /\ UNCHANGED <<clock, dirs, unpackedBy>>
    /\ UNCHANGED <<runVars, untarVars>>

\* must(os.MkdirAll(tmpDir, 0755)): no error when the directory exists already
RunMkdirAll(r, ok) ==
    /\ rpc[r] = "mkdir"
    /\ dirs' = IF ok THEN dirs \cup {tmpDir[r]} ELSE dirs
    /\ rpc' = [rpc EXCEPT ![r] = must(ok, "unpack")]
    /\ UNCHANGED <<clock, tmpDir, unpackedBy>>
    /\ UNCHANGED <<runVars, untarVars>>

\* img, err := remote.Image(r); must(err); must(unpack(img, tmpDir)); return tmpDir
RunUnpack(r, ok) ==
    /\ rpc[r] = "unpack"
    /\ unpackedBy' = unpackedBy \cup {<<tmpDir[r], r>>}
    /\ rpc' = [rpc EXCEPT ![r] = must(ok, "spawn")]
    /\ UNCHANGED <<clock, tmpDir, dirs>>
    /\ UNCHANGED <<runVars, untarVars>>

\* must(cmd.Run()): the child chroots into tmpDir and runs the shell, then exits
RunChild(r) ==
    /\ rpc[r] = "spawn"
    /\ rpc' = [rpc EXCEPT ![r] = "exited"]
    /\ UNCHANGED <<clock, tmpDir, dirs, unpackedBy>>
    /\ UNCHANGED <<runVars, untarVars>>

\* time passes on the host
Tick ==
    /\ clock < MaxClock
    /\ clock' = clock + 1
    /\ UNCHANGED <<rpc, tmpDir, dirs, unpackedBy>>
    /\ UNCHANGED <<runVars, untarVars>>

RunsIdle ==
    /\ clock = 0
    /\ rpc = [r \in Runs |-> "idle"]
    /\ tmpDir = [r \in Runs |-> <<>>]
    /\ dirs = {}
    /\ unpackedBy = {}

----------------------------------------------------------------------------
(* Spec: one run                                                           *)

RunStart ==
    /\ ppc = "start"
    /\ pexit = NotExited
    /\ tmpDirExists = FALSE
    /\ nLayers = 0
    /\ layerIdx = 0
    /\ root = ""
    /\ flags = {}
    /\ sysProcAttr = ZeroAttr
    /\ cmdAttr = ZeroAttr
    /\ cpc = "none"
    /\ cexit = NotExited
    /\ childAttr = ZeroAttr
    /\ done = <<>>
    /\ failedStep = "none"
    /\ hostname = [n \in Namespaces |-> bootHostname]
    /\ cpid = 0
    /\ cargs = <<>>
    /\ ptrace = <<>>
    /\ mounts = [n \in Namespaces |-> {}]
    /\ lateHostMounts = {}
    /\ croot = "/"
    /\ ccwd = Under("/", "cwd")
    /\ procDir = <<>>

RunIdle ==
    /\ userns = FALSE
    /\ uid = 0
    /\ gid = 0
    /\ hostShared = FALSE
    /\ bootHostname = HostHostname
    /\ RunStart

Init ==
    /\ userns \in BOOLEAN
    /\ uid \in Uids
    /\ gid \in Gids
    /\ hostShared \in BOOLEAN
    /\ bootHostname \in HostHostnames
    /\ RunStart
    /\ UntarIdle
    /\ RunsIdle

Next ==
    \/ \E ok \in BOOLEAN : ParseReference(ok)
    \/ \E ok \in BOOLEAN : MkTmpDir(ok)
    \/ \E ok \in BOOLEAN : RemoteImage(ok)
    \/ \E ok \in BOOLEAN, n \in 0..MaxLayers : ImgLayers(ok, n)
    \/ \E ok \in BOOLEAN : UnpackLayer(ok)
    \/ RootfsReturn
    \/ NewCommand
    \/ SetFlags
    \/ SetUsernsFlag
    \/ MakeSysProcAttr
    \/ SetMappings
    \/ AssignAttr
    \/ \E ok \in BOOLEAN : CmdStart(ok)
    \/ CmdWait
    \/ ChildMain
    \/ \E ok \in BOOLEAN : Sethostname(ok)
    \/ \E ok \in BOOLEAN : MkdirProc(ok)
    \/ \E ok \in BOOLEAN : MountProc(ok)
    \/ \E ok \in BOOLEAN : Chroot(ok)
    \/ \E ok \in BOOLEAN : Chdir(ok)
    \/ \E ok \in BOOLEAN : Exec(ok)
    \/ ShellMount
    \/ \E s \in ExitStatuses : ShellExit(s)
    \/ HostMount

Spec == Init /\ [][Next]_vars

----------------------------------------------------------------------------
(* SpecUntar: unpack() of an image of up to MaxLayers layers carrying up   *)
(* to MaxEntries entries in all                                            *)

InitUntar ==
    /\ umask \in Umasks
    /\ fs = InitFs
    /\ inodes = InitInodes
    /\ upc = "loop"
    /\ nImg \in 0..MaxLayers
    /\ li = 0
    /\ applied = <<>>
    /\ rcOpen = {}
    /\ RunIdle
    /\ RunsIdle

NextUntar ==
    \/ \E ok \in BOOLEAN : OpenLayer(ok)
    \/ UnpackReturn
    \/ UntarEOF
    \/ UntarNextError
    \/ \E h \in Entries : \E k \in 0..Len(h.Data) : UntarEntry(h, k)

SpecUntar == InitUntar /\ [][NextUntar]_vars

----------------------------------------------------------------------------
(* Claims about one run                                                    *)

Range(s) == {s[i] : i \in 1..Len(s)}
IsPrefix(s, t) == Len(s) <= Len(t) /\ s = SubSeq(t, 1, Len(s))
ChildOrder == <<"sethostname", "mkdir", "mount", "chroot", "chdir", "exec">>
ShellRan == "exec" \in Range(done)

\* C1: the steps of Container Init complete in the order sethostname, mkdir
\* proc, mount proc, chroot, chdir, exec; the proc mount is made at
\* <rootfs>/proc as seen from the old root; and whenever the shell runs, the
\* hostname is set, proc is mounted there, and root and cwd are the rootfs.
C1_InitOrder ==
    /\ IsPrefix(done, ChildOrder)
    /\ procDir \in {<<>>, Under("/", ProcPath)}
    /\ cpc = "shell" =>
         /\ hostname[UtsNs(childAttr)] = ContainerHostname
         /\ Under("/", ProcPath) \in mounts[MntNs(childAttr)]
         /\ croot = TmpDir
         /\ ccwd = Under(TmpDir, "/")

C1_Witness == cpc = "shell" /\ done = ChildOrder

\* C2: once a step of Container Init has failed, the child has terminated with
\* a non-zero status at that step: the steps completed are exactly those
\* before the failed one, and the shell was never started.
C2_FailureIsFatal ==
    failedStep # "none" =>
        /\ cpc = "exited"
        /\ cexit # NotExited /\ cexit # 0
        /\ ~ShellRan
        /\ Len(done) < Len(ChildOrder)
        /\ IsPrefix(done, ChildOrder)
        /\ ChildOrder[Len(done) + 1] = failedStep

C2_Witness == failedStep = "chroot" /\ cpc = "exited" /\ Len(done) = 3

\* C3: no mount made inside the container (the proc mount, a mount by the
\* shell) is ever in the host's mount table, while the container runs or
\* after it is gone, and no mount the host made after the child was created
\* is ever in the container's mount table.
C3_PrivateMounts ==
    /\ mounts["host"] \subseteq {HostMnt}
    /\ mounts["ctr"] \cap lateHostMounts = {}

C3_Witness ==
    /\ cpc = "shell"
    /\ hostShared
    /\ HostMnt \in lateHostMounts
    /\ {Under("/", ProcPath), Under(TmpDir, "/mnt")} \subseteq mounts["ctr"]

\* C4: once main() has decided the flags, and for as long as the child exists,
\* the namespace set is mount, UTS and PID, plus user exactly when -userns
\* was given; the child was created with exactly that set.
C4_NamespaceSet ==
    LET want == {NEWNS, NEWUTS, NEWPID} \cup (IF userns THEN {NEWUSER} ELSE {}) IN
    /\ ppc \in {"flags_done", "attr", "mapped", "ready", "waiting"} => flags = want
    /\ cpc # "none" => /\ childAttr.Cloneflags = want
                       /\ flags = want
                       /\ cmdAttr.Cloneflags = want

C4_Witness == cpc = "shell" /\ userns /\ NEWUSER \in childAttr.Cloneflags

\* C5: the child carries a UID and a GID mapping exactly when -userns was
\* given and the invoking uid is not 0; each is then the single entry
\* {host id -> container id 0, size 1}; otherwise both are empty.
C5_IdMappings ==
    cpc # "none" =>
        IF userns /\ uid # 0
        THEN /\ childAttr.UidMappings = <<[HostID |-> uid, ContainerID |-> 0, Size |-> 1]>>
             /\ childAttr.GidMappings = <<[HostID |-> gid, ContainerID |-> 0, Size |-> 1]>>
        ELSE /\ childAttr.UidMappings = <<>>
             /\ childAttr.GidMappings = <<>>

C5_Witness == cpc = "shell" /\ userns /\ uid # 0 /\ gid # 0 /\ Len(childAttr.UidMappings) = 1

\* C6 as stated: when the run has ended after the shell ran, the run's exit
\* status equals the shell's exit status.
C6_ExitStatusEqual == (pexit # NotExited /\ ShellRan) => pexit = cexit

\* C6 as amended: the run ends only after the child has terminated; after the
\* shell ran its status is 0 when the shell's is 0 and 1 otherwise; a run that
\* ends without the shell having started ends non-zero.
C6_ExitStatus ==
    pexit # NotExited =>
        /\ cpc # "none" => cpc = "exited"
        /\ ShellRan => pexit = (IF cexit = 0 THEN 0 ELSE 1)
        /\ ~ShellRan => pexit # 0

C6_Witness == pexit = 1 /\ ShellRan /\ cexit = 2

----------------------------------------------------------------------------
(* SpecRuns: two runs started on one host                                  *)

InitRuns ==
    /\ clock = 0
    /\ rpc = [r \in Runs |-> "start"]
    /\ tmpDir = [r \in Runs |-> <<>>]
    /\ dirs = {}
    /\ unpackedBy = {}
    /\ RunIdle
    /\ UntarIdle

NextRuns ==
    \/ \E r \in Runs : RunTmpDir(r)
    \/ \E r \in Runs, ok \in BOOLEAN : RunMkdirAll(r, ok)
    \/ \E r \in Runs, ok \in BOOLEAN : RunUnpack(r, ok)
    \/ \E r \in Runs : RunChild(r)
    \/ Tick

SpecRuns == InitRuns /\ [][NextRuns]_vars

----------------------------------------------------------------------------
(* Claims about the layer unpacker and about concurrent runs               *)

\* the content read at path, following symbolic links; <<"absent">> if no file
FileData(path) ==
    LET w == Stat(fs, path) IN
    IF w.err = "" /\ fs[w.path].kind = "file" THEN inodes[fs[w.path].ino].data
    ELSE <<"absent">>

\* the permission bits of the object at path itself; -1 if there is none
ModeAt(path) ==
    LET w == Lstat(fs, path) IN
    IF w.err # "" THEN 0 - 1
    ELSE IF fs[w.path].kind = "file" THEN inodes[fs[w.path].ino].mode
    ELSE fs[w.path].mode

KindAt(path) ==
    LET w == Lstat(fs, path) IN IF w.err # "" THEN "absent" ELSE fs[w.path].kind

Unpacking == upc \in {"untar", "loop", "done"}

\* C7 as stated: when a first layer and then a second layer each brought one
\* regular-file entry at the same path, and both were applied, the file's
\* content is exactly the second entry's content.
C7_LastAppliedWins ==
    ( /\ Unpacking
      /\ Len(applied) = 2
      /\ applied[1].h.Typeflag = "reg" /\ applied[2].h.Typeflag = "reg"
      /\ EntryPath(applied[1].h) = EntryPath(applied[2].h)
      /\ applied[1].layer = 1 /\ applied[2].layer = 2 )
    => FileData(EntryPath(applied[2].h)) = applied[2].h.Data

\* C8 as stated, read in the code's favour (umask 0, and where entries repeat
\* at one path only the last of them counts): after unpacking, every
\* directory and regular-file entry is at its path with its declared
\* permission bits.
C8_EntriesPresent ==
    (upc = "done" /\ umask = 0) =>
        \A i \in 1..Len(applied) :
            LET h == applied[i].h IN
            ( /\ h.Typeflag \in {"dir", "reg"}
              /\ \A j \in (i + 1)..Len(applied) : EntryPath(applied[j].h) # EntryPath(h) )
            => /\ KindAt(EntryPath(h)) = (IF h.Typeflag = "dir" THEN "dir" ELSE "file")
               /\ ModeAt(EntryPath(h)) = h.Mode

\* C9 as stated: whatever the unpacker has created or changed lies inside the
\* destination directory; everything else is as it was before unpacking.
C9_Contained ==
    \A p \in DOMAIN fs :
        \/ p \in DOMAIN InitFs /\ fs[p] = InitFs[p]
        \/ Len(p) > Len(Dst) /\ SubSeq(p, 1, Len(Dst)) = Dst

\* C10 as stated: two runs that have both computed their rootfs path have
\* computed different paths, and no directory is unpacked into by two runs.
C10_UniqueRootfs ==
    /\ \A r1, r2 \in Runs :
          (r1 # r2 /\ tmpDir[r1] # <<>> /\ tmpDir[r2] # <<>>) => tmpDir[r1] # tmpDir[r2]
    /\ \A u1, u2 \in unpackedBy : u1[1] = u2[1] => u1[2] = u2[2]

----------------------------------------------------------------------------
(* Failures of the Rootfs Provisioner                                      *)

StepsDone == {ptrace[i].step : i \in 1..Len(ptrace)}
FailedAt(i) == ~ptrace[i].ok
FailedSteps == {ptrace[i].step : i \in {j \in 1..Len(ptrace) : FailedAt(j)}}
Resolution == {"ParseReference", "remote.Image"}
UntarRuns == {i \in 1..Len(ptrace) : ptrace[i].step = "untar"}

\* C11: a failure in image resolution, layer retrieval or unpacking ends the
\* run there and then, without a retry: a failed step is the last step the
\* orchestrator ever takes and the orchestrator has exited; after a failed
\* resolution no layer is ever unpacked, and a child exists only when every
\* layer of the image was unpacked successfully.
C11_FailureEndsRun ==
    /\ \A i \in 1..Len(ptrace) :
          FailedAt(i) => /\ i = Len(ptrace)
                         /\ ppc = "exited"
                         /\ pexit = FatalStatus
    /\ FailedSteps \cap (Resolution \cup {"Layers", "untar"}) # {} => cpc = "none"
    /\ FailedSteps \cap Resolution # {} => UntarRuns = {} /\ layerIdx = 0
    /\ cpc # "none" =>
          /\ layerIdx = nLayers
          /\ Cardinality(UntarRuns) = nLayers
          /\ \A i \in UntarRuns : ptrace[i].ok

C11_Witness ==
    /\ ppc = "exited"
    /\ nLayers = MaxLayers
    /\ layerIdx = 1
    /\ "untar" \in FailedSteps
    /\ cpc = "none"

\* C12 as stated: the rootfs directory exists only after resolution and
\* layer-set retrieval have succeeded, and a run that failed in resolution or
\* layer-set retrieval has left no rootfs directory behind.
C12_DirAfterResolution ==
    /\ tmpDirExists =>
          (Resolution \cup {"Layers"}) \subseteq (StepsDone \ FailedSteps)
    /\ FailedSteps \cap (Resolution \cup {"Layers"}) # {} => ~tmpDirExists


----------------------------------------------------------------------------
(* Errors of the Layer Unpacker                                            *)

Stopped == upc \in {"error", "fatal"}

\* C13 as stated: the entry at which reading, copying or creating failed is
\* the last one applied, and the unpack operation has returned that error to
\* its caller.
C13_ErrorReturned ==
    \A i \in 1..Len(applied) :
        ~(applied[i].made /\ applied[i].copied) =>
            i = Len(applied) /\ upc = "error"

\* every entry on record: a failed creation or copy is the last one, and where it left untar()
FailureIsLast ==
    \A i \in 1..Len(applied) :
     /\ ~applied[i].made => i = Len(applied) /\ upc = "fatal"
     /\ (applied[i].made /\ ~applied[i].copied) =>
            i = Len(applied) /\ upc = "error"
     /\ (applied[i].made /\ applied[i].copied) => applied[i].pos = "untar"

\* C13, amended: the entry at which copying or creating failed is the last
\* one applied and nothing happens after it; a failed copy is returned to
\* the caller as an error, a failed creation ends the process inside the
\* unpacker; once the unpacker has stopped no step follows, and no step ever
\* removes what was made before.
C13_AbortOnFirstError ==
    [][/\ FailureIsLast
       /\ FailureIsLast'
       /\ ~Stopped /\ DOMAIN fs \subseteq DOMAIN fs']_vars

C13_Witness ==
    /\ Len(applied) = 2
    /\ applied[1].h.Typeflag = "reg" /\ applied[1].pos = "untar"
    /\ applied[2].h.Typeflag = "dir" /\ ~applied[2].made
    /\ upc = "fatal"
    /\ Join(Dst, <<"a">>) \in DOMAIN fs


----------------------------------------------------------------------------
(* Hard links                                                              *)

InDst(p) == Len(p) > Len(Dst) /\ SubSeq(p, 1, Len(Dst)) = Dst

\* C14 as stated: a hard-link entry that was applied has made its path a
\* second name of the file its link name denotes, and that file was looked
\* up under the destination root, never in the host's file system outside it.
C14_HardLinkInDst ==
    \A i \in 1..Len(applied) :
        LET h == applied[i].h
            old == Lstat(fs, Join(Dst, h.Linkname))
            new == Lstat(fs, EntryPath(h))
        IN (h.Typeflag = "link" /\ applied[i].made) =>
              /\ old.err = "" /\ new.err = ""
              /\ fs[new.path] = fs[old.path]
              /\ InDst(old.path)


----------------------------------------------------------------------------
(* The shell's process ID and hostname                                     *)

\* C15: the child is process 1 of its PID namespace from the moment it is
\* created, through every step of Container Init and the exec, so the shell
\* runs as process 1; before the child exists there is no such process.
C15_ShellIsPid1 ==
    /\ cpc = "none" => cpid = 0
    /\ cpc # "none" => cpid = 1

C15_Witness == cpc = "shell" /\ cpid = 1 /\ done = ChildOrder

\* C16 as stated: when the shell runs, the hostname inside the container is
\* the fixed one and differs from the host's, and the host's hostname is
\* what it was when the run started.
C16_HostnameDiffers ==
    /\ hostname["host"] = bootHostname
    /\ cpc = "shell" =>
          /\ hostname[UtsNs(childAttr)] = ContainerHostname
          /\ hostname[UtsNs(childAttr)] # hostname["host"]

\* C16, amended: the host's hostname is what it was when the run started;
\* when the shell runs it is in a UTS namespace of its own where the hostname
\* is the fixed one, which differs from the host's unless the host itself
\* carries that name.
C16_HostnameIsolated ==
    /\ hostname["host"] = bootHostname
    /\ cpc = "shell" =>
          /\ UtsNs(childAttr) = "ctr"
          /\ hostname["ctr"] = ContainerHostname
          /\ bootHostname # ContainerHostname => hostname["ctr"] # hostname["host"]

C16_Witness ==
    /\ cpc = "shell"
    /\ bootHostname = HostHostname
    /\ hostname["ctr"] = ContainerHostname
    /\ hostname["host"] = HostHostname


----------------------------------------------------------------------------
(* Symbolic links and entries of other types                               *)

\* the entry the step has applied, when it has applied one
Applying == Len(applied') = Len(applied) + 1
Last == applied'[Len(applied')]
HandledTypes == {"dir", "reg", "link", "symlink"}

\* every symbolic-link entry applied so far is a symbolic link with the target it was given
SymlinksAsGiven ==
    \A i \in 1..Len(applied) :
     LET h == applied[i].h IN
     (h.Typeflag = "symlink" /\ applied[i].made) =>
        \A w \in {Lstat(fs, EntryPath(h))} :
           /\ applied[i].pos = "untar"
           /\ w.err = ""
           /\ fs[w.path].kind = "symlink"
           /\ fs[w.path].target = h.Linkname

\* C17: a symbolic-link entry that was applied has left a symbolic link at
\* its path whose target is the entry's link name as it stands; and whether
\* the entry is applied successfully depends on its path alone (nothing may
\* be there yet), not on whether the target exists.
C17_SymlinkVerbatim ==
    [][/\ SymlinksAsGiven
       /\ SymlinksAsGiven'
       /\ (Applying /\ Last.h.Typeflag = "symlink") =>
           \A w \in {Lstat(fs, EntryPath(Last.h))} :
               Last.made <=> (w.err = "ENOENT" /\ w.final)]_vars

\* a symbolic link to the absolute path /tmp under a name inside the
\* destination, and a second one whose target "a" does not exist beside it
C17_Witness ==
    /\ upc = "untar"
    /\ Len(applied) = 2
    /\ applied[1].h.Typeflag = "symlink" /\ applied[1].made
    /\ applied[1].h.Linkname = <<"", "tmp">>
    /\ applied[2].h.Typeflag = "symlink" /\ applied[2].made
    /\ applied[2].h.Name = <<"..", "x">> /\ applied[2].h.Linkname = <<"a">>
    /\ Stat(fs, EntryPath(applied[2].h)).err = "ENOENT"

\* every entry of another type on record raised no error
OtherTypesPass ==
    \A i \in 1..Len(applied) :
     applied[i].h.Typeflag \notin HandledTypes =>
         applied[i].pos = "untar" /\ applied[i].made

\* C18: an entry of any other type is skipped: applying it changes neither
\* the tree nor any file, raises no error, and leaves the unpacker reading
\* the same stream for the next entry.
C18_OtherTypesSkipped ==
    [][/\ OtherTypesPass
       /\ OtherTypesPass'
       /\ (Applying /\ Last.h.Typeflag \notin HandledTypes) =>
           /\ fs' = fs
           /\ inodes' = inodes
           /\ upc' = "untar"
           /\ li' = li]_vars

C18_Witness ==
    /\ Len(applied) = 2
    /\ applied[1].h.Typeflag = "fifo"
    /\ applied[2].h.Typeflag = "reg" /\ applied[2].copied
    /\ applied[2].layer = applied[1].layer
    /\ DOMAIN fs = DOMAIN InitFs \cup {Join(Dst, <<"a">>)}


----------------------------------------------------------------------------
(* The order of unpacking                                                  *)

\* the entries on record are in layer order, and only the current stream is open
InLayerOrder ==
    /\ \A i, j \in 1..Len(applied) :
        i < j => applied[i].layer <= applied[j].layer
    /\ \A n \in 1..Len(applied) : applied[n].layer \in 1..li
    /\ rcOpen = IF upc = "untar" THEN {li} ELSE {}

\* C19: entries are applied layer by layer in the image's order, each from
\* the stream of the layer opened last, one entry per step; at most one
\* stream is open at a time, and a layer's stream is opened only when the
\* one before it has been closed.
C19_UnpackOrder ==
    [][/\ InLayerOrder
       /\ InLayerOrder'
       /\ (Applying =>
             /\ applied' = Append(applied, Last)
             /\ Last.layer = li
             /\ rcOpen = {li})
          /\ (li' # li => li' = li + 1 /\ rcOpen = {} /\ applied' = applied)]_vars

C19_Witness ==
    /\ upc = "untar"
    /\ li = 2
    /\ rcOpen = {2}
    /\ Len(applied) = 2
    /\ applied[1].layer = 1 /\ applied[1].copied
    /\ applied[2].layer = 2 /\ applied[2].copied


----------------------------------------------------------------------------
(* Self re-execution                                                       *)

Spawned == {i \in 1..Len(ptrace) : ptrace[i].step = "cmd.Start" /\ ptrace[i].ok}

\* the child, if any, is the only one and runs child() on the rootfs it was given
OneChildInChildMode ==
    /\ cpc # "parent_mode"
    /\ Cardinality(Spawned) = (IF cpc = "none" THEN 0 ELSE 1)
    /\ cpc # "none" =>
          /\ cargs = <<"/proc/self/exe", "--child", root>>
          /\ croot \in {"/", cargs[3]}

\* C20: the re-executed program is given "--child" and the rootfs path, takes
\* the child branch of main() and never the orchestrator's code; the
\* orchestrator creates a child at most once, and no step of the child
\* parses flags, provisions a rootfs, configures or starts a command.
C20_ChildIsLeaf ==
    [][/\ OneChildInChildMode
       /\ OneChildInChildMode'
       /\ (cpc # "none" /\ cpc' # cpc) =>
           UNCHANGED <<ppc, ptrace, provVars, cfgVars, cargs>>]_vars

C20_Witness ==
    /\ cpc = "shell"
    /\ cargs[2] = "--child"
    /\ croot = cargs[3]
    /\ Cardinality(Spawned) = 1
    /\ ppc # "exited"


============================================================================
